---- MODULE Spec2Model ----
(***************************************************************************)
(* A model of the historical FPL data loader                               *)
(* (src/src/ingestion/data_exploration.py): the remote season source, the  *)
(* season reconciler (reconstruct_complete_season), the dataset assembler  *)
(* (load_all_historical_data) and the analytical store writer              *)
(* (save_to_database), driven by run_complete_load; and of the trainer     *)
(* (src/src/ml/train_baseline.py: load_data, create_time_based_splits,     *)
(* evaluate_model) and the explorer (src/src/ml/explore_features.py),      *)
(* each called on its own.                                                 *)
(*                                                                         *)
(* A DataFrame is a record [columns |-> set of column names,               *)
(* rows |-> sequence of rows]; a row is a function from the frame's        *)
(* columns to values.  Python's None is the value None.                    *)
(***************************************************************************)
EXTENDS Integers, Sequences, FiniteSets, TLC

\* ------------------------------------------------------------------ bounds

\* Gameweeks probed per season: range(1, 39) in the code, scaled down here.
NumGW == 2

\* Players that appear in the files the remote host serves.
NumPlayers == 1

\* Rows of a frame or of a test set handed to the trainer.
MaxRows == 3

\* ----------------------------------------------------------- configuration

COMPLETE_SEASONS == <<"2020-21", "2021-22", "2022-23", "2023-24">>

PARTIAL_SEASONS == <<"2024-25">>

GameWeeks == 1..NumGW

Players == 1..NumPlayers

None == [none |-> TRUE]

\* ------------------------------------------------------------- DataFrames

\* df[list(cols)] for one row: the row restricted to the columns cols.
RowProject(row, cols) == [c \in cols |-> row[c]]

\* df[list(cols)]: the frame restricted to the columns cols, row order kept.
Project(df, cols) ==
  [columns |-> cols,
   rows |-> [k \in 1..Len(df.rows) |-> RowProject(df.rows[k], cols)]]

\* df[col] = val: the column is added, or overwritten, in every row.
AssignColumn(df, col, val) ==
  [columns |-> df.columns \cup {col},
   rows |-> [k \in 1..Len(df.rows) |->
               [c \in df.columns \cup {col} |->
                  IF c = col THEN val ELSE df.rows[k][c]]]]

RECURSIVE IntersectColumns(_)
\* set.intersection(*[set(df.columns) for df in dfs]), dfs not empty.
IntersectColumns(dfs) ==
  IF Len(dfs) = 1 THEN dfs[1].columns
  ELSE dfs[1].columns \cap IntersectColumns(Tail(dfs))

RECURSIVE ConcatRows(_)
\* The rows of pd.concat(dfs, ignore_index=True): the frames' rows in order.
ConcatRows(dfs) ==
  IF dfs = <<>> THEN <<>> ELSE dfs[1].rows \o ConcatRows(Tail(dfs))

\* pd.concat([df[list(cols)] for df in dfs], ignore_index=True)
ConcatCommon(dfs, cols) ==
  [columns |-> cols,
   rows |-> ConcatRows([k \in 1..Len(dfs) |-> Project(dfs[k], cols)])]

\* Two rows agree on every column of subset.
SameKey(r, q, subset) == \A c \in subset : r[c] = q[c]

\* Mutant of KeptFirst: keep='last', a row stays unless a later row has the
\* same values in the subset columns.
KeptLast(rows, subset) ==
  {k \in 1..Len(rows) :
     \A m \in (k + 1)..Len(rows) : ~SameKey(rows[m], rows[k], subset)}

\* The positions drop_duplicates(subset, keep='first') keeps: a row stays
\* unless an earlier row has the same values in the subset columns.
KeptFirst(rows, subset) ==
  {k \in 1..Len(rows) : \A m \in 1..(k - 1) : ~SameKey(rows[m], rows[k], subset)}

RECURSIVE SubSeqAt(_, _, _)
\* The rows at the positions in keep, from position k on, in order.
SubSeqAt(rows, keep, k) ==
  IF k > Len(rows) THEN <<>>
  ELSE (IF k \in keep THEN <<rows[k]>> ELSE <<>>) \o SubSeqAt(rows, keep, k + 1)

\* Mutant of DropDuplicates: nothing is dropped.
DropDuplicatesKeepAll(df, subset) == df

\* df.drop_duplicates(subset=subset, keep='first')
DropDuplicates(df, subset) ==
  [columns |-> df.columns,
   rows |-> SubSeqAt(df.rows, KeptFirst(df.rows, subset), 1)]

\* sorted(df['GW'].unique()) as a set.
UniqueGW(df) == {df.rows[k]["GW"] : k \in 1..Len(df.rows)}

\* Mutant of Without: nothing is filtered out.
WithoutKeepAll(xs, excluded) == xs

\* [x for x in xs if x not in excluded], order kept.
Without(xs, excluded) == SelectSeq(xs, LAMBDA x : x \notin excluded)

\* ------------------------------------------------------ the remote host

\* Column names a CSV file on the host can carry.
CsvColumns == {"name", "GW", "team", "total_points"}

\* Headers of merged_gw.csv files: the full one, and ones lacking a column.
MergedHeaders ==
  {CsvColumns, CsvColumns \ {"team"}, CsvColumns \ {"name"}, CsvColumns \ {"GW"}}

\* Headers of gw{n}.csv files, which carry no GW column of their own.
GwHeaders ==
  {{"name", "team", "total_points"}, {"name", "total_points"},
   {"team", "total_points"}}

\* A merged file's content: one row per player for each gameweek 1..upto, in
\* gameweek order, and, with dup, a second row for player 1 in gameweek 1 (a
\* double gameweek) with other points.
MergedFile(header, upto, dup) ==
  LET full(p, g, pts) ==
        [name |-> p, GW |-> g, team |-> "T", total_points |-> pts]
      base == [k \in 1..(upto * NumPlayers) |->
                 RowProject(full(((k - 1) % NumPlayers) + 1,
                                 ((k - 1) \div NumPlayers) + 1, 0), header)]
  IN [columns |-> header,
      rows |-> IF dup /\ upto >= 1
               THEN Append(base, RowProject(full(1, 1, 1), header))
               ELSE base]

\* A gameweek file's content: one row per player, and, with dup, a second row
\* for player 1 with other points.
GwFile(header, dup) ==
  LET full(p, pts) == [name |-> p, team |-> "T", total_points |-> pts]
      base == [k \in 1..NumPlayers |-> RowProject(full(k, 2), header)]
  IN [columns |-> header,
      rows |-> IF dup THEN Append(base, RowProject(full(1, 3), header))
               ELSE base]

\* The merged files the host may serve to a direct call of the reconciler.
WideMergedFiles ==
  {MergedFile(h, u, d) : h \in MergedHeaders, u \in 0..NumGW, d \in BOOLEAN}

\* The merged files the host may serve during a whole run: full seasons.
NarrowMergedFiles == {MergedFile(h, NumGW, FALSE) : h \in MergedHeaders}

WideGwFiles == {GwFile(h, d) : h \in GwHeaders, d \in BOOLEAN}

NarrowGwFiles == {GwFile({"name", "team", "total_points"}, FALSE)}

\* What a GET can come to: a file that parses, or a network or parse failure.
Failure == [failure |-> TRUE]

\* What a HEAD probe can come to.
ProbeOutcomes == {"200", "404", "error"}

\* Requests are told apart by unit: the merged file of a season is
\* <<season, 0>>, the file of gameweek g is <<season, g>>.
Seasons ==
  {COMPLETE_SEASONS[k] : k \in 1..Len(COMPLETE_SEASONS)}
    \cup {PARTIAL_SEASONS[k] : k \in 1..Len(PARTIAL_SEASONS)}

Units == Seasons \X (0..NumGW)

\* ------------------------------------------------------------------ state

VARIABLES
  entry,            \* the method the caller invoked
  pc,               \* the statement about to run, by function and line
  err,              \* the exception that ended the call, "" if none
  season,           \* the season being loaded
  i,                \* position in the season list being looped over
  all_season_data,  \* load_all_historical_data's list of season frames
  merged_df,        \* reconstruct_complete_season's merged frame, or None
  gw,               \* check_available_gameweeks' loop variable
  available_gws,    \* gameweeks whose probe answered 200
  missing_gws,      \* gameweeks to fetch one by one
  j,                \* position in missing_gws
  individual_dfs,   \* frames of the gameweeks fetched one by one
  ret,              \* what reconstruct_complete_season returned
  final_df,         \* what load_all_historical_data returned
  store,            \* the table player_gameweeks of the database file
  conn,             \* the database connection of save_to_database
  pending,          \* the exception save_to_database re-raises after finally
  gets,             \* GET requests sent so far, per unit
  failed,           \* units whose GET ended in a network or parse failure
  probes,           \* what the HEAD probe of each unit came to
  save_calls,       \* calls of save_to_database so far
  store_writes,     \* CREATE OR REPLACE TABLE statements executed so far
  store0,           \* the table player_gameweeks as the run found it
  ml_df,            \* the frame FPLPredictor.load_data returned
  masks,            \* what create_time_based_splits returned
  y_test,           \* the actual values evaluate_model was called with
  y_pred,           \* the predictions evaluate_model got from the model
  metrics,          \* what evaluate_model returned
  qi                \* position in explore_ml_features' list of queries

vars ==
  <<entry, pc, err, season, i, all_season_data, merged_df, gw, available_gws,
    missing_gws, j, individual_dfs, ret, final_df, store, conn, pending, gets,
    failed, probes, save_calls, store_writes, store0, ml_df, masks, y_test,
    y_pred, metrics, qi>>

\* reconstruct_complete_season's locals and result.
rcsVars ==
  <<merged_df, gw, available_gws, missing_gws, j, individual_dfs, ret>>

\* The database side.
dbVars == <<store, conn, pending, save_calls, store_writes>>

\* The trainer's and the explorer's side.
mlVars == <<ml_df, masks, y_test, y_pred, metrics, qi>>

\* The loader's side, which the trainer and the explorer leave alone.
loaderVars ==
  <<season, i, all_season_data, final_df, pending, gets, failed, probes,
    save_calls, store_writes, store, store0>>

\* A raised exception as the value of a call.
Raised(e) == [exc |-> e]

IsRaised(v) == "exc" \in DOMAIN v

\* The files the host may serve: a whole run draws from the narrow sets,
\* which keeps the state space of five seasons of files small; a direct call
\* of the reconciler draws from the wide ones.
HostMerged ==
  IF entry = "run_complete_load" THEN NarrowMergedFiles ELSE WideMergedFiles

HostGw == IF entry = "run_complete_load" THEN NarrowGwFiles ELSE WideGwFiles

\* A table a previous run left in the database file.
OldTable ==
  [columns |-> {"name", "GW", "season"},
   rows |-> <<[name |-> 0, GW |-> 1, season |-> "2019-20"]>>]

\* ------------------------------------------------- the remote season source

\* load_merged_season: the frame read, with its season column set; None on
\* any exception of the read.
load_merged_season(resp, s) ==
  IF resp = Failure THEN None ELSE AssignColumn(resp, "season", s)

\* One turn of check_available_gameweeks' loop: whether the gameweek is
\* appended to available_gws.
probe_available(outcome) == outcome = "200"

\* Mutant of load_individual_gameweek: the exception of the read gets out.
load_individual_gameweek_raising(resp, s, g) ==
  IF resp = Failure THEN Raised("URLError")
  ELSE AssignColumn(AssignColumn(resp, "season", s), "GW", g)

\* load_individual_gameweek: the frame read, with its season and GW columns
\* set; None on any exception of the read.
load_individual_gameweek(resp, s, g) ==
  IF resp = Failure THEN None
  ELSE AssignColumn(AssignColumn(resp, "season", s), "GW", g)

\* ---------------------------------------------------- the season reconciler

\* Mutant of Strategy: a season with nothing to load is an error.
StrategyRaiseOnNothing(m, avail) ==
  IF avail = <<>> /\ m = None THEN [kind |-> "raise", exc |-> "ValueError"]
  ELSE IF avail = <<>> THEN [kind |-> "return", value |-> m]
  ELSE IF m = None THEN [kind |-> "load", missing |-> avail]
  ELSE IF "GW" \notin m.columns THEN [kind |-> "raise", exc |-> "KeyError"]
  ELSE IF UniqueGW(m) = {} THEN [kind |-> "raise", exc |-> "ValueError"]
  ELSE [kind |-> "load", missing |-> Without(avail, UniqueGW(m))]

\* Mutant of Strategy: without a merged frame the first available gameweek
\* is left out of the gameweeks to fetch.
StrategySkipFirst(m, avail) ==
  IF avail = <<>> THEN [kind |-> "return", value |-> m]
  ELSE IF m = None THEN [kind |-> "load", missing |-> Tail(avail)]
  ELSE IF "GW" \notin m.columns THEN [kind |-> "raise", exc |-> "KeyError"]
  ELSE IF UniqueGW(m) = {} THEN [kind |-> "raise", exc |-> "ValueError"]
  ELSE [kind |-> "load", missing |-> Without(avail, UniqueGW(m))]

\* Lines 88-99: return the merged frame as it is when no gameweek is
\* available one by one; else the gameweeks to fetch.  merged_df['GW'] raises
\* KeyError without a GW column, min(merged_gws) raises ValueError on a
\* merged frame without rows.
Strategy(m, avail) ==
  IF avail = <<>> THEN [kind |-> "return", value |-> m]
  ELSE IF m = None THEN [kind |-> "load", missing |-> avail]
  ELSE IF "GW" \notin m.columns THEN [kind |-> "raise", exc |-> "KeyError"]
  ELSE IF UniqueGW(m) = {} THEN [kind |-> "raise", exc |-> "ValueError"]
  ELSE [kind |-> "load", missing |-> Without(avail, UniqueGW(m))]

\* Mutant of Combine: of the common columns only those of the duplicate
\* check are kept.
CombineKeyColumns(m, individual) ==
  LET all_dfs == (IF m # None THEN <<m>> ELSE <<>>) \o individual
      common_columns == IntersectColumns(all_dfs) \cap {"name", "GW", "season"}
      combined_df == ConcatCommon(all_dfs, common_columns)
  IN IF all_dfs = <<>> THEN None
     ELSE IF ~({"name", "GW", "season"} \subseteq common_columns)
          THEN Raised("KeyError")
          ELSE DropDuplicates(combined_df, {"name", "GW", "season"})

\* Lines 108-128: the frames in concatenation order, merged first; their
\* common columns; the concatenation without duplicates of (name, GW,
\* season), first kept.  drop_duplicates raises KeyError when a subset column
\* is not among the common columns.
Combine(m, individual) ==
  LET all_dfs == (IF m # None THEN <<m>> ELSE <<>>) \o individual
      common_columns == IntersectColumns(all_dfs)
      combined_df == ConcatCommon(all_dfs, common_columns)
  IN IF all_dfs = <<>> THEN None
     ELSE IF ~({"name", "GW", "season"} \subseteq common_columns)
          THEN Raised("KeyError")
          ELSE DropDuplicates(combined_df, {"name", "GW", "season"})

\* An exception leaves every frame of the call stack: run_complete_load logs
\* it and raises it again.
Raise(e) == pc' = "raised" /\ err' = e

\* Line 83: merged_df = self.load_merged_season(season)
RcsLoadMerged ==
  /\ pc = "rcs_83"
  /\ \E resp \in HostMerged \cup {Failure} :
       LET r == load_merged_season(resp, season) IN
         /\ gets' = [gets EXCEPT ![<<season, 0>>] = @ + 1]
         /\ failed' = IF resp = Failure THEN failed \cup {<<season, 0>>} ELSE failed
         /\ IF IsRaised(r)
            THEN Raise(r.exc) /\ UNCHANGED <<merged_df, gw, available_gws>>
            ELSE /\ merged_df' = r
                 /\ gw' = 1
                 /\ available_gws' = <<>>
                 /\ pc' = "rcs_86"
                 /\ err' = err
  /\ UNCHANGED <<entry, season, i, all_season_data, missing_gws, j,
                 individual_dfs, ret, final_df, probes>>
  /\ UNCHANGED dbVars
  /\ UNCHANGED <<store0, mlVars>>

\* Lines 53-60: one HEAD request of check_available_gameweeks.
RcsProbe ==
  /\ pc = "rcs_86"
  /\ gw <= NumGW
  /\ \E outcome \in ProbeOutcomes :
       /\ probes' = [probes EXCEPT ![<<season, gw>>] = outcome]
       /\ available_gws' = IF probe_available(outcome)
                           THEN Append(available_gws, gw)
                           ELSE available_gws
  /\ gw' = gw + 1
  /\ UNCHANGED <<entry, pc, err, season, i, all_season_data, merged_df,
                 missing_gws, j, individual_dfs, ret, final_df, gets, failed>>
  /\ UNCHANGED dbVars
  /\ UNCHANGED <<store0, mlVars>>

\* Lines 88-99, once every gameweek is probed.
RcsStrategy ==
  /\ pc = "rcs_86"
  /\ gw > NumGW
  /\ LET s == Strategy(merged_df, available_gws) IN
       CASE s.kind = "return" ->
              /\ ret' = s.value
              /\ pc' = "rcs_return"
              /\ UNCHANGED <<err, missing_gws, j, individual_dfs>>
         [] s.kind = "raise" ->
              /\ Raise(s.exc)
              /\ UNCHANGED <<ret, missing_gws, j, individual_dfs>>
         [] s.kind = "load" ->
              /\ missing_gws' = s.missing
              /\ j' = 1
              /\ individual_dfs' = <<>>
              /\ pc' = "rcs_103"
              /\ UNCHANGED <<err, ret>>
  /\ UNCHANGED <<entry, season, i, all_season_data, merged_df, gw,
                 available_gws, final_df, gets, failed, probes>>
  /\ UNCHANGED dbVars
  /\ UNCHANGED <<store0, mlVars>>

\* Mutant of RcsLoadGameweek: a failed gameweek is fetched again.
RcsLoadGameweekRetry ==
  /\ pc = "rcs_103"
  /\ j <= Len(missing_gws)
  /\ \E resp \in HostGw \cup {Failure} :
       LET r == load_individual_gameweek(resp, season, missing_gws[j]) IN
         /\ gets' = [gets EXCEPT ![<<season, missing_gws[j]>>] = @ + 1]
         /\ failed' = IF resp = Failure
                      THEN failed \cup {<<season, missing_gws[j]>>}
                      ELSE failed
         /\ individual_dfs' = IF r # None THEN Append(individual_dfs, r)
                              ELSE individual_dfs
         /\ j' = IF r # None THEN j + 1 ELSE j
  /\ UNCHANGED <<entry, pc, err, season, i, all_season_data, merged_df, gw,
                 available_gws, missing_gws, ret, final_df, probes>>
  /\ UNCHANGED dbVars
  /\ UNCHANGED <<store0, mlVars>>

\* Lines 103-106: one turn of the loop over missing_gws.
RcsLoadGameweek ==
  /\ pc = "rcs_103"
  /\ j <= Len(missing_gws)
  /\ \E resp \in HostGw \cup {Failure} :
       LET r == load_individual_gameweek(resp, season, missing_gws[j]) IN
         /\ gets' = [gets EXCEPT ![<<season, missing_gws[j]>>] = @ + 1]
         /\ failed' = IF resp = Failure
                      THEN failed \cup {<<season, missing_gws[j]>>}
                      ELSE failed
         /\ IF IsRaised(r)
            THEN Raise(r.exc) /\ UNCHANGED <<individual_dfs, j>>
            ELSE /\ individual_dfs' = IF r # None
                                      THEN Append(individual_dfs, r)
                                      ELSE individual_dfs
                 /\ j' = j + 1
                 /\ UNCHANGED <<pc, err>>
  /\ UNCHANGED <<entry, season, i, all_season_data, merged_df, gw,
                 available_gws, missing_gws, ret, final_df, probes>>
  /\ UNCHANGED dbVars
  /\ UNCHANGED <<store0, mlVars>>

\* Lines 108-128, once every missing gameweek is tried.
RcsCombine ==
  /\ pc = "rcs_103"
  /\ j > Len(missing_gws)
  /\ LET r == Combine(merged_df, individual_dfs) IN
       IF IsRaised(r)
       THEN Raise(r.exc) /\ ret' = ret
       ELSE ret' = r /\ pc' = "rcs_return" /\ err' = err
  /\ UNCHANGED <<entry, season, i, all_season_data, merged_df, gw,
                 available_gws, missing_gws, j, individual_dfs, final_df, gets,
                 failed, probes>>
  /\ UNCHANGED dbVars
  /\ UNCHANGED <<store0, mlVars>>

\* ---------------------------------------------------- the dataset assembler

\* Lines 137-140: one turn of the loop over COMPLETE_SEASONS.
LahLoadComplete ==
  /\ pc = "lah_137"
  /\ i <= Len(COMPLETE_SEASONS)
  /\ \E resp \in HostMerged \cup {Failure} :
       LET s == COMPLETE_SEASONS[i]
           df == load_merged_season(resp, s)
       IN /\ season' = s
          /\ gets' = [gets EXCEPT ![<<s, 0>>] = @ + 1]
          /\ failed' = IF resp = Failure THEN failed \cup {<<s, 0>>} ELSE failed
          /\ IF IsRaised(df)
             THEN Raise(df.exc) /\ UNCHANGED <<i, all_season_data>>
             ELSE /\ all_season_data' = IF df # None
                                        THEN Append(all_season_data, df)
                                        ELSE all_season_data
                  /\ i' = i + 1
                  /\ UNCHANGED <<pc, err>>
  /\ UNCHANGED <<entry, final_df, probes>>
  /\ UNCHANGED rcsVars
  /\ UNCHANGED dbVars
  /\ UNCHANGED <<store0, mlVars>>

\* Mutant of LahStartPartial: the loop over PARTIAL_SEASONS starts after the
\* first of the COMPLETE_SEASONS.
LahStartPartialEarly ==
  /\ pc = "lah_137"
  /\ i > 1
  /\ pc' = "lah_143"
  /\ i' = 1
  /\ UNCHANGED <<entry, err, season, all_season_data, final_df, gets, failed,
                 probes>>
  /\ UNCHANGED rcsVars
  /\ UNCHANGED dbVars
  /\ UNCHANGED <<store0, mlVars>>

\* Line 143: the loop over PARTIAL_SEASONS starts once COMPLETE_SEASONS is
\* through.
LahStartPartial ==
  /\ pc = "lah_137"
  /\ i > Len(COMPLETE_SEASONS)
  /\ pc' = "lah_143"
  /\ i' = 1
  /\ UNCHANGED <<entry, err, season, all_season_data, final_df, gets, failed,
                 probes>>
  /\ UNCHANGED rcsVars
  /\ UNCHANGED dbVars
  /\ UNCHANGED <<store0, mlVars>>

\* Line 144: df = self.reconstruct_complete_season(season)
LahCallReconstruct ==
  /\ pc = "lah_143"
  /\ i <= Len(PARTIAL_SEASONS)
  /\ season' = PARTIAL_SEASONS[i]
  /\ pc' = "rcs_83"
  /\ UNCHANGED <<entry, err, i, all_season_data, final_df, gets, failed, probes>>
  /\ UNCHANGED rcsVars
  /\ UNCHANGED dbVars
  /\ UNCHANGED <<store0, mlVars>>

\* Lines 145-146: the season's frame is appended unless it is None.
LahAppendPartial ==
  /\ entry = "run_complete_load"
  /\ pc = "rcs_return"
  /\ all_season_data' = IF ret # None THEN Append(all_season_data, ret)
                        ELSE all_season_data
  /\ i' = i + 1
  /\ pc' = "lah_143"
  /\ UNCHANGED <<entry, err, season, final_df, gets, failed, probes>>
  /\ UNCHANGED rcsVars
  /\ UNCHANGED dbVars
  /\ UNCHANGED <<store0, mlVars>>

\* Mutant of CombineSeasons: the frames are concatenated as they are, the
\* columns of all of them kept and the cells a frame lacks filled with NaN.
CombineSeasonsUnion(data) ==
  LET all_columns == UNION {data[k].columns : k \in 1..Len(data)}
      fill(df) ==
        [columns |-> all_columns,
         rows |-> [k \in 1..Len(df.rows) |->
                     [c \in all_columns |->
                        IF c \in df.columns THEN df.rows[k][c] ELSE "NaN"]]]
  IN IF data = <<>> THEN Raised("ValueError")
     ELSE IF ~({"season", "name", "GW"} \subseteq all_columns)
          THEN Raised("KeyError")
          ELSE [columns |-> all_columns,
                rows |-> ConcatRows([k \in 1..Len(data) |-> fill(data[k])])]

\* Mutant of CombineSeasons: the summary lines that read the key columns are
\* left out.
CombineSeasonsNoSummary(data) ==
  IF data = <<>> THEN Raised("ValueError")
  ELSE ConcatCommon(data, IntersectColumns(data))

\* Mutant of CombineSeasons: no season's data is an empty dataset, not an
\* error.
CombineSeasonsEmptyOk(data) ==
  IF data = <<>> THEN [columns |-> {"name", "GW", "season"}, rows |-> <<>>]
  ELSE IF ~({"season", "name", "GW"} \subseteq IntersectColumns(data))
       THEN Raised("KeyError")
       ELSE ConcatCommon(data, IntersectColumns(data))

\* Lines 148-172: ValueError when no season gave a frame; else the frames
\* restricted to their common columns and concatenated.  The summary reads
\* final_df['season'], final_df['name'] and final_df['GW'], each a KeyError
\* when the column is not among the common ones.
CombineSeasons(data) ==
  LET common_columns == IntersectColumns(data) IN
    IF data = <<>> THEN Raised("ValueError")
    ELSE IF ~({"season", "name", "GW"} \subseteq common_columns)
         THEN Raised("KeyError")
         ELSE ConcatCommon(data, common_columns)

\* Lines 148-172, once PARTIAL_SEASONS is through; run_complete_load then
\* calls save_to_database (line 223).
LahCombine ==
  /\ pc = "lah_143"
  /\ i > Len(PARTIAL_SEASONS)
  /\ LET r == CombineSeasons(all_season_data) IN
       IF IsRaised(r)
       THEN Raise(r.exc) /\ UNCHANGED <<final_df, save_calls>>
       ELSE /\ final_df' = r
            /\ save_calls' = save_calls + 1
            /\ pc' = "std_178"
            /\ err' = err
  /\ UNCHANGED <<entry, season, i, all_season_data, gets, failed, probes,
                 store, conn, pending, store_writes>>
  /\ UNCHANGED rcsVars
  /\ UNCHANGED <<store0, mlVars>>

\* ------------------------------------------------ the analytical store writer

\* Line 178: conn = duckdb.connect(self.database_path), outside the try.
StdConnect ==
  /\ pc = "std_178"
  /\ \E ok \in BOOLEAN :
       IF ok
       THEN conn' = "open" /\ pc' = "std_182" /\ err' = err
       ELSE Raise("DBError") /\ conn' = conn
  /\ UNCHANGED <<entry, season, i, all_season_data, final_df, gets, failed,
                 probes, store, pending, save_calls, store_writes>>
  /\ UNCHANGED rcsVars
  /\ UNCHANGED <<store0, mlVars>>

\* Mutant of ReplaceTable: the rows are inserted into the table that is
\* there.
ReplaceTableAppend(old, df) ==
  IF old = None THEN df
  ELSE [columns |-> df.columns, rows |-> old.rows \o df.rows]

\* The table CREATE OR REPLACE TABLE ... AS SELECT * FROM complete_data
\* leaves, whatever the table held.
ReplaceTable(old, df) == df

\* Lines 182-187: the frame is registered and the table replaced; a database
\* error goes to the except clause (lines 210-212), which raises it again
\* once finally has run.
StdCreate ==
  /\ pc = "std_182"
  /\ \E ok \in BOOLEAN :
       IF ok
       THEN /\ store' = ReplaceTable(store, final_df)
            /\ store_writes' = store_writes + 1
            /\ pc' = "std_190"
            /\ pending' = pending
       ELSE /\ pending' = "DBError"
            /\ pc' = "std_214"
            /\ UNCHANGED <<store, store_writes>>
  /\ UNCHANGED <<entry, err, season, i, all_season_data, final_df, gets,
                 failed, probes, conn, save_calls>>
  /\ UNCHANGED rcsVars
  /\ UNCHANGED <<store0, mlVars>>

\* Lines 190-208: the three indexes and the verification query.  The index
\* on (team, season) is an error when the table has no team column.
StdIndexVerify ==
  /\ pc = "std_190"
  /\ \E ok \in BOOLEAN :
       IF ok /\ "team" \in store.columns
       THEN pending' = pending
       ELSE pending' = "DBError"
  /\ pc' = "std_214"
  /\ UNCHANGED <<entry, err, season, i, all_season_data, final_df, gets,
                 failed, probes, store, conn, save_calls, store_writes>>
  /\ UNCHANGED rcsVars
  /\ UNCHANGED <<store0, mlVars>>

\* How save_to_database ends after finally: the pending exception is raised
\* out of it, and out of run_complete_load (lines 229-231).
AfterFinally(p) == IF p = "" THEN [pc |-> "done", err |-> ""]
                   ELSE [pc |-> "raised", err |-> p]

\* Lines 213-214: conn.close() on every way out of the try.
StdFinally ==
  /\ pc = "std_214"
  /\ conn' = "closed"
  /\ pc' = AfterFinally(pending).pc
  /\ err' = AfterFinally(pending).err
  /\ UNCHANGED <<entry, season, i, all_season_data, final_df, gets, failed,
                 probes, store, pending, save_calls, store_writes>>
  /\ UNCHANGED rcsVars
  /\ UNCHANGED <<store0, mlVars>>

\* ------------------------------------------------------------- the trainer
\* src/src/ml/train_baseline.py.  The frame load_data reads from
\* mart_ml_features has the columns season and next_gw_points; the feature
\* columns are left to the model, whose predictions are any values.

\* The seasons a row of mart_ml_features can carry: the five configured
\* ones and one from before them, in the order of ORDER BY season.
MART_SEASONS == <<"2019-20">> \o COMPLETE_SEASONS \o PARTIAL_SEASONS

\* The values of next_gw_points and of a prediction.
PointValues == {2, 10, 12}

\* The sequences over S of length up to n.
SeqsUpTo(S, n) == UNION {[1..k -> S] : k \in 0..n}

\* The position of the season in the order of the query.
SeasonRank(s) == CHOOSE k \in 1..Len(MART_SEASONS) : MART_SEASONS[k] = s

\* The frames create_time_based_splits can be called with.
MartFrames ==
  [columns : {{"season", "next_gw_points"}},
   rows : SeqsUpTo([season : {MART_SEASONS[k] : k \in 1..Len(MART_SEASONS)},
                    next_gw_points : PointValues], MaxRows)]

\* The frames the query of load_data can give: ORDER BY season.
QueryResults ==
  {f \in MartFrames :
     \A k \in 1..(Len(f.rows) - 1) :
       SeasonRank(f.rows[k].season) <= SeasonRank(f.rows[k + 1].season)}

\* Lines 33: conn = duckdb.connect(DB_PATH)
LdConnect ==
  /\ entry = "load_data"
  /\ pc = "ld_33"
  /\ \E ok \in BOOLEAN :
       IF ok
       THEN conn' = "open" /\ pc' = "ld_85" /\ err' = err
       ELSE Raise("DBError") /\ conn' = conn
  /\ UNCHANGED <<entry, ml_df, masks, y_test, y_pred, metrics, qi>>
  /\ UNCHANGED loaderVars
  /\ UNCHANGED rcsVars

\* Line 85: df = conn.execute(query).df().  An error of the query, such as a
\* database without the table mart_ml_features, leaves load_data there and
\* then: nothing encloses the statement.
LdExecute ==
  /\ pc = "ld_85"
  /\ \E resp \in QueryResults \cup {Failure} :
       IF resp = Failure
       THEN Raise("DBError") /\ ml_df' = ml_df
       ELSE ml_df' = resp /\ pc' = "ld_86" /\ err' = err
  /\ UNCHANGED <<entry, conn, masks, y_test, y_pred, metrics, qi>>
  /\ UNCHANGED loaderVars
  /\ UNCHANGED rcsVars

\* Lines 86-93: conn.close(), the summary, return df.
LdClose ==
  /\ pc = "ld_86"
  /\ conn' = "closed"
  /\ pc' = "done"
  /\ UNCHANGED <<entry, err, ml_df, masks, y_test, y_pred, metrics, qi>>
  /\ UNCHANGED loaderVars
  /\ UNCHANGED rcsVars

\* Lines 125-127: the seasons of each split.
train_seasons == {"2020-21", "2021-22", "2022-23"}

\* Mutant of val_season: the last training season is listed for validation
\* too.
val_season_overlapping == {"2022-23", "2023-24"}

\* Line 126.
val_season == {"2023-24"}

\* Line 127.
test_season == {"2024-25"}

\* Mutant of create_time_based_splits: the rows are split by where they
\* stand, the first three fifths train, the next fifth validation.
create_time_based_splits_by_position(df) ==
  LET n == Len(df.rows)
      train_end == (3 * n) \div 5
      val_end == (4 * n) \div 5
  IN [train_mask |-> [k \in 1..n |-> k <= train_end],
      val_mask |-> [k \in 1..n |-> k > train_end /\ k <= val_end],
      test_mask |-> [k \in 1..n |-> k > val_end]]

\* Lines 120-137: the three masks, each df['season'].isin(...) row by row.
create_time_based_splits(df) ==
  [train_mask |->
     [k \in 1..Len(df.rows) |-> df.rows[k].season \in train_seasons],
   val_mask |->
     [k \in 1..Len(df.rows) |-> df.rows[k].season \in val_season],
   test_mask |->
     [k \in 1..Len(df.rows) |-> df.rows[k].season \in test_season]]

\* main, lines 263-266: X[mask], the rows at which the mask is True, in
\* order.
BooleanIndex(rows, mask) ==
  SubSeqAt(rows, {k \in 1..Len(rows) : mask[k]}, 1)

\* A call create_time_based_splits(df).
SplitCall ==
  /\ entry = "create_time_based_splits"
  /\ pc = "split_129"
  /\ masks' = create_time_based_splits(ml_df)
  /\ pc' = "done"
  /\ UNCHANGED <<entry, err, conn, ml_df, y_test, y_pred, metrics, qi>>
  /\ UNCHANGED loaderVars
  /\ UNCHANGED rcsVars

\* The values in ascending order.
Sorted(xs) == SortSeq(xs, LAMBDA a, b : a < b)

\* np.median, doubled to stay among the integers: the middle value, or the
\* mean of the two middle values.
median_x2(xs) ==
  LET s == Sorted(xs)
      n == Len(xs)
  IN IF n % 2 = 1 THEN 2 * s[(n + 1) \div 2]
     ELSE s[n \div 2] + s[n \div 2 + 1]

\* np.percentile(xs, p) with its linear interpolation, times 100: the value
\* at position p/100 * (n - 1) of the sorted values, counted from 0.
percentile_x100(xs, p) ==
  LET s == Sorted(xs)
      lo == (p * (Len(xs) - 1)) \div 100
      r == (p * (Len(xs) - 1)) % 100
  IN IF r = 0 THEN 100 * s[lo + 1]
     ELSE 100 * s[lo + 1] + r * (s[lo + 2] - s[lo + 1])

\* What numpy gives for 0 / 0 and for a / 0, with a warning only.
NaN == [nan |-> TRUE]
Inf == [inf |-> TRUE]

\* a / b as numpy divides: the fraction, nan when both are zero, inf when b
\* alone is.
Divide(a, b) == IF b = 0 THEN (IF a = 0 THEN NaN ELSE Inf)
                ELSE [num |-> a, den |-> b]

\* Line 214: the points that make a big haul.
BigHaulPoints == 10

\* Line 215: the percentile of the predictions that makes the threshold.
TopPercentile == 95

\* Mutant of directional_acc: a prediction at the median counts as above it.
directional_acc_at_or_above(y, p) ==
  LET actual_positive == [k \in 1..Len(y) |-> 2 * y[k] > median_x2(y)]
      pred_positive == [k \in 1..Len(p) |-> 2 * p[k] >= median_x2(p)]
  IN Divide(Cardinality({k \in 1..Len(y) :
                            actual_positive[k] = pred_positive[k]}),
            Len(y))

\* Lines 206-210: the share of rows whose actual value and whose prediction
\* are on the same side of their medians.
directional_acc(y, p) ==
  LET actual_positive == [k \in 1..Len(y) |-> 2 * y[k] > median_x2(y)]
      pred_positive == [k \in 1..Len(p) |-> 2 * p[k] > median_x2(p)]
  IN Divide(Cardinality({k \in 1..Len(y) :
                            actual_positive[k] = pred_positive[k]}),
            Len(y))

\* max(a, b) of Python.
Max(a, b) == IF a >= b THEN a ELSE b

\* Mutant of big_haul_recall: the overlap is divided by the big hauls as
\* they are counted.
big_haul_recall_unguarded(y, p) ==
  LET big_hauls_actual == Cardinality({k \in 1..Len(y) : y[k] >= BigHaulPoints})
      big_haul_threshold_x100 == percentile_x100(p, TopPercentile)
      big_haul_overlap ==
        Cardinality({k \in 1..Len(y) :
                       /\ y[k] >= BigHaulPoints
                       /\ 100 * p[k] >= big_haul_threshold_x100})
  IN Divide(big_haul_overlap, big_hauls_actual)

\* Lines 214-217 and 233: the big hauls among the predictions at or above
\* the threshold, over the big hauls, the divisor at least 1.
big_haul_recall(y, p) ==
  LET big_hauls_actual == Cardinality({k \in 1..Len(y) : y[k] >= BigHaulPoints})
      big_haul_threshold_x100 == percentile_x100(p, TopPercentile)
      big_haul_overlap ==
        Cardinality({k \in 1..Len(y) :
                       /\ y[k] >= BigHaulPoints
                       /\ 100 * p[k] >= big_haul_threshold_x100})
  IN Divide(big_haul_overlap, Max(big_hauls_actual, 1))

\* Line 182: y_test_pred = self.model.predict(X_test), the predictions any
\* values; the RandomForestRegressor rejects an input of no rows with
\* ValueError.
EvalPredict ==
  /\ entry = "evaluate_model"
  /\ pc = "eval_182"
  /\ IF y_test = <<>>
     THEN Raise("ValueError") /\ y_pred' = y_pred
     ELSE /\ y_pred' \in [1..Len(y_test) -> PointValues]
          /\ pc' = "eval_206"
          /\ err' = err
  /\ UNCHANGED <<entry, conn, ml_df, masks, y_test, metrics, qi>>
  /\ UNCHANGED loaderVars
  /\ UNCHANGED rcsVars

\* Lines 185-234: the metrics returned.
EvalMetrics ==
  /\ pc = "eval_206"
  /\ metrics' = [directional_accuracy |-> directional_acc(y_test, y_pred),
                 big_haul_recall |-> big_haul_recall(y_test, y_pred)]
  /\ pc' = "done"
  /\ UNCHANGED <<entry, err, conn, ml_df, masks, y_test, y_pred, qi>>
  /\ UNCHANGED loaderVars
  /\ UNCHANGED rcsVars

\* ------------------------------------------------------------ the explorer
\* src/src/ml/explore_features.py, explore_ml_features.

\* The lines of the conn.execute(...) statements, in order.
EXPLORE_QUERIES == <<23, 42, 65, 89, 109, 128, 163>>

\* Line 19: conn = duckdb.connect(DB_PATH)
ExConnect ==
  /\ entry = "explore_ml_features"
  /\ pc = "ex_19"
  /\ \E ok \in BOOLEAN :
       IF ok
       THEN conn' = "open" /\ pc' = "ex_query" /\ err' = err
       ELSE Raise("DBError") /\ conn' = conn
  /\ UNCHANGED <<entry, ml_df, masks, y_test, y_pred, metrics, qi>>
  /\ UNCHANGED loaderVars
  /\ UNCHANGED rcsVars

\* Lines 23-191: the next query and the printing of its result; an error
\* leaves explore_ml_features there and then.
ExQuery ==
  /\ pc = "ex_query"
  /\ qi <= Len(EXPLORE_QUERIES)
  /\ \E ok \in BOOLEAN :
       IF ok
       THEN qi' = qi + 1 /\ UNCHANGED <<pc, err>>
       ELSE Raise("DBError") /\ qi' = qi
  /\ UNCHANGED <<entry, conn, ml_df, masks, y_test, y_pred, metrics>>
  /\ UNCHANGED loaderVars
  /\ UNCHANGED rcsVars

\* Line 193: conn.close()
ExClose ==
  /\ pc = "ex_query"
  /\ qi > Len(EXPLORE_QUERIES)
  /\ conn' = "closed"
  /\ pc' = "done"
  /\ UNCHANGED <<entry, err, ml_df, masks, y_test, y_pred, metrics, qi>>
  /\ UNCHANGED loaderVars
  /\ UNCHANGED rcsVars

\* --------------------------------------------------------- specifications

InitCommon ==
  /\ err = ""
  /\ i = 1
  /\ all_season_data = <<>>
  /\ merged_df = None
  /\ gw = 1
  /\ available_gws = <<>>
  /\ missing_gws = <<>>
  /\ j = 1
  /\ individual_dfs = <<>>
  /\ ret = None
  /\ final_df = None
  /\ conn = "none"
  /\ pending = ""
  /\ gets = [u \in Units |-> 0]
  /\ failed = {}
  /\ probes = [u \in Units |-> "none"]
  /\ save_calls = 0
  /\ store_writes = 0
  /\ store0 = store

\* The trainer and the explorer are not part of the loader's run.
MlIdle ==
  /\ ml_df = None
  /\ masks = None
  /\ y_test = <<>>
  /\ y_pred = <<>>
  /\ metrics = None
  /\ qi = 1

\* A direct call reconstruct_complete_season(season).
InitSeason ==
  /\ entry = "reconstruct_complete_season"
  /\ pc = "rcs_83"
  /\ season \in {PARTIAL_SEASONS[k] : k \in 1..Len(PARTIAL_SEASONS)}
  /\ store = None
  /\ InitCommon
  /\ MlIdle

NextSeason ==
  \/ RcsLoadMerged
  \/ RcsProbe
  \/ RcsStrategy
  \/ RcsLoadGameweek
  \/ RcsCombine

SpecSeason == InitSeason /\ [][NextSeason]_vars

\* A call run_complete_load(), the database file empty or left by a run
\* before.
Init ==
  /\ entry = "run_complete_load"
  /\ pc = "lah_137"
  /\ season = COMPLETE_SEASONS[1]
  /\ store \in {None, OldTable}
  /\ InitCommon
  /\ MlIdle

Next ==
  \/ LahLoadComplete
  \/ LahStartPartial
  \/ LahCallReconstruct
  \/ RcsLoadMerged
  \/ RcsProbe
  \/ RcsStrategy
  \/ RcsLoadGameweek
  \/ RcsCombine
  \/ LahAppendPartial
  \/ LahCombine
  \/ StdConnect
  \/ StdCreate
  \/ StdIndexVerify
  \/ StdFinally

Spec == Init /\ [][Next]_vars

\* A call of one of the trainer's methods or of explore_ml_features: the
\* frame, the test values and the database are whatever the caller has.
InitMl ==
  /\ entry \in {"load_data", "create_time_based_splits", "evaluate_model",
                "explore_ml_features"}
  /\ pc = CASE entry = "load_data" -> "ld_33"
            [] entry = "create_time_based_splits" -> "split_129"
            [] entry = "evaluate_model" -> "eval_182"
            [] entry = "explore_ml_features" -> "ex_19"
  /\ season = COMPLETE_SEASONS[1]
  /\ store = None
  /\ InitCommon
  /\ ml_df \in IF entry = "create_time_based_splits" THEN MartFrames
               ELSE {None}
  /\ y_test \in IF entry = "evaluate_model" THEN SeqsUpTo(PointValues, MaxRows)
                ELSE {<<>>}
  /\ masks = None
  /\ y_pred = <<>>
  /\ metrics = None
  /\ qi = 1

NextMl ==
  \/ LdConnect
  \/ LdExecute
  \/ LdClose
  \/ SplitCall
  \/ EvalPredict
  \/ EvalMetrics
  \/ ExConnect
  \/ ExQuery
  \/ ExClose

SpecMl == InitMl /\ [][NextMl]_vars

\* ------------------------------------------------------------- properties

\* The columns that identify a record.
KeyColumns == {"name", "GW", "season"}

\* No two rows of the frame share (name, GW).
NoDuplicateKeys(df) ==
  \A a, b \in 1..Len(df.rows) :
    a # b => ~SameKey(df.rows[a], df.rows[b], {"name", "GW"})

\* The call of reconstruct_complete_season has returned.
Returned == pc = "rcs_return"

\* The call of reconstruct_complete_season has returned or raised.
SeasonCallOver == pc \in {"rcs_return", "raised"}

\* The GET requests sent for single gameweeks of the season.
GameweekGets(s) == {g \in GameWeeks : gets[<<s, g>>] > 0}

RECURSIVE FirstWins(_, _)
\* The rows read from the left, a row taken unless a row taken before it has
\* the same values in the subset columns.
FirstWins(rows, subset) ==
  IF rows = <<>> THEN <<>>
  ELSE LET front == FirstWins(SubSeq(rows, 1, Len(rows) - 1), subset)
           last == rows[Len(rows)]
       IN IF \E k \in 1..Len(front) : SameKey(front[k], last, subset)
          THEN front
          ELSE Append(front, last)

RECURSIVE RowsBefore(_, _)
\* The number of rows in the first k frames of dfs.
RowsBefore(dfs, k) ==
  IF k = 0 THEN 0 ELSE RowsBefore(dfs, k - 1) + Len(dfs[k].rows)

\* C1: when the season has a merged table and at least one gameweek probed
\* available, the table reconstruct_complete_season returns has no two rows
\* with the same (name, GW).
C1_NoDuplicateAfterReconcile ==
  (Returned /\ merged_df # None /\ available_gws # <<>>)
    => /\ ret # None
       /\ {"name", "GW"} \subseteq ret.columns
       /\ NoDuplicateKeys(ret)

\* C1 witness: a merged table and a fetched gameweek table were reconciled
\* and a duplicate row was dropped.
C1_Witness ==
  /\ Returned
  /\ merged_df # None
  /\ individual_dfs # <<>>
  /\ Len(ret.rows) < Len(merged_df.rows) + Len(ConcatRows(individual_dfs))

\* C2: every table reconstruct_complete_season returns, from whatever
\* sources, has at most one row per (name, GW).
C2_AtMostOneRecordPerKey ==
  (Returned /\ ret # None /\ {"name", "GW"} \subseteq ret.columns)
    => NoDuplicateKeys(ret)

\* C3: when the merged fetch failed and no gameweek probed available,
\* reconstruct_complete_season returns None without raising, and the
\* assembler appends nothing and goes on to the next season.
C3_NothingToLoadReturnsNone ==
  [][/\ (pc = "rcs_86" /\ gw > NumGW /\ merged_df = None /\ available_gws = <<>>)
          => (pc' = "rcs_return" /\ ret' = None /\ err' = "")
     /\ (entry = "run_complete_load" /\ pc = "rcs_return" /\ ret = None)
          => /\ pc' = "lah_143"
             /\ i' = i + 1
             /\ all_season_data' = all_season_data
             /\ err' = ""]_vars

\* C3 witness: the partial season had no merged file and no gameweek file,
\* and the run went on to store the other seasons' data.
C3_Witness ==
  /\ pc = "done"
  /\ <<PARTIAL_SEASONS[1], 0>> \in failed
  /\ merged_df = None
  /\ available_gws = <<>>
  /\ ret = None
  /\ \A g \in GameWeeks : probes[<<PARTIAL_SEASONS[1], g>>] # "none"

\* C4: the dataset load_all_historical_data returns has exactly the columns
\* every season frame has, and its rows are the season frames' rows in order,
\* each restricted to those columns.
C4_UnifiedIsIntersectedConcat ==
  final_df # None =>
    /\ \A c \in UNION {all_season_data[k].columns : k \in 1..Len(all_season_data)}
                \cup final_df.columns :
         c \in final_df.columns
           <=> \A k \in 1..Len(all_season_data) : c \in all_season_data[k].columns
    /\ Len(final_df.rows) = RowsBefore(all_season_data, Len(all_season_data))
    /\ \A k \in 1..Len(all_season_data) :
         \A r \in 1..Len(all_season_data[k].rows) :
           final_df.rows[RowsBefore(all_season_data, k - 1) + r]
             = RowProject(all_season_data[k].rows[r], final_df.columns)

\* C4 witness: a dataset was built from several season frames, one of which
\* had a column the dataset has not.
C4_Witness ==
  /\ final_df # None
  /\ Len(all_season_data) >= 2
  /\ \E k \in 1..Len(all_season_data) :
       all_season_data[k].columns # final_df.columns
  /\ Len(final_df.rows) > 0

\* C5: the dataset load_all_historical_data returns has the columns name,
\* season and GW.
C5_UnifiedHasJoinKeys ==
  final_df # None =>
    /\ final_df.columns # {}
    /\ {"name", "season", "GW"} \subseteq final_df.columns

\* C5 witness: a dataset was returned whose common columns are fewer than
\* those of a full file.
C5_Witness ==
  /\ final_df # None
  /\ "team" \notin final_df.columns
  /\ Len(all_season_data) >= 2

\* C6: an exception leaves load_all_historical_data only when no season gave
\* a frame.
C6_FatalOnlyWithoutAnySeason ==
  (pc = "raised" /\ err # "DBError") => all_season_data = <<>>

\* C7: with no season's data the run ends in ValueError without a call of
\* save_to_database, a connection or a write to the store; a run never gets
\* past load_all_historical_data without data; and a database error inside
\* save_to_database ends the run with that error.
C7_WholeRunFailureIsFatal ==
  /\ (pc = "raised" /\ all_season_data = <<>> /\ i > Len(PARTIAL_SEASONS))
       => /\ err = "ValueError"
          /\ save_calls = 0
          /\ store_writes = 0
          /\ conn = "none"
          /\ final_df = None
  /\ (pc \in {"std_178", "std_182", "std_190", "std_214", "done"})
       => all_season_data # <<>>
  /\ (save_calls = 0) => (store_writes = 0 /\ conn = "none")
  /\ (pc = "done") => (pending = "" /\ err = "")
  /\ (pending # "" /\ pc # "std_214") => (pc = "raised" /\ err = pending)

\* C7 witness: every merged fetch failed and no gameweek was available; the
\* run ended in ValueError.
C7_Witness ==
  /\ pc = "raised"
  /\ err = "ValueError"
  /\ all_season_data = <<>>
  /\ \A s \in Seasons : <<s, 0>> \in failed
  /\ store = OldTable

\* C8: no failed fetch ends the call: the exception of a GET never gets out,
\* a failed merged fetch leaves merged_df None, a gameweek whose probe did not
\* answer 200 is not available, each failed gameweek fetch adds no frame, and
\* every row of every frame fetched has a row of its key in the table
\* returned.
C8_FetchFailureNotFatal ==
  /\ err \in {"", "KeyError", "ValueError", "DBError"}
  /\ (pc \in {"rcs_86", "rcs_103", "rcs_return"} /\ <<season, 0>> \in failed)
       => merged_df = None
  /\ pc \in {"rcs_86", "rcs_103", "rcs_return"}
       => \A g \in GameWeeks :
            (\E k \in 1..Len(available_gws) : available_gws[k] = g)
              <=> probes[<<season, g>>] = "200"
  /\ (pc = "rcs_103")
       => Len(individual_dfs)
            = Cardinality({k \in 1..(j - 1) : <<season, missing_gws[k]>> \notin failed})
  /\ (Returned /\ ret # None)
       => \A k \in 1..Len(individual_dfs) :
            \A r \in 1..Len(individual_dfs[k].rows) :
              \E q \in 1..Len(ret.rows) :
                SameKey(ret.rows[q], individual_dfs[k].rows[r],
                        KeyColumns \cap ret.columns)
  /\ (Returned /\ merged_df # None)
       => /\ ret # None
          /\ \A r \in 1..Len(merged_df.rows) :
               \E q \in 1..Len(ret.rows) :
                 SameKey(ret.rows[q], merged_df.rows[r],
                         KeyColumns \cap ret.columns)

\* C8 witness: one gameweek fetch failed, another gave a frame, and the call
\* returned a table.
C8_Witness ==
  /\ Returned
  /\ ret # None
  /\ individual_dfs # <<>>
  /\ \E g \in GameWeeks : <<season, g>> \in failed
  /\ \E g \in GameWeeks : probes[<<season, g>>] = "200"

\* C9: no unit is requested twice in a run.
C9_EachUnitFetchedAtMostOnce == \A u \in Units : gets[u] <= 1

\* C9 witness: a run ended after a failed fetch and after a gameweek file was
\* fetched.
C9_Witness ==
  /\ pc = "done"
  /\ \E u \in failed : gets[u] = 1
  /\ \E g \in GameWeeks : gets[<<PARTIAL_SEASONS[1], g>>] = 1

\* The merged frame has a row for every gameweek.
MergedCoversSeason ==
  /\ merged_df # None
  /\ "GW" \in merged_df.columns
  /\ UniqueGW(merged_df) = GameWeeks

\* C10 as claimed: when the merged table covers every gameweek, no gameweek
\* is fetched and the table returned has the merged table's rows.
C10_CoveredSeasonReturnsMergedRows ==
  (Returned /\ MergedCoversSeason)
    => /\ GameweekGets(season) = {}
       /\ ret # None
       /\ ret.rows = merged_df.rows

\* C10 as amended: when the merged table covers every gameweek, no gameweek
\* is fetched.  With no gameweek probed available the merged table is returned
\* as it is.  Else, without a name column the call raises KeyError, and with
\* one the table returned has the merged table's rows less the later rows of a
\* (name, GW, season) already seen: all of them, one for each player in each
\* gameweek, when no two share a key.
C10_CoveredSeasonReturnsMergedFirstRows ==
  (SeasonCallOver /\ MergedCoversSeason)
    => /\ GameweekGets(season) = {}
       /\ (available_gws = <<>>) => (Returned /\ ret = merged_df)
       /\ (available_gws # <<>> /\ "name" \notin merged_df.columns)
            => (pc = "raised" /\ err = "KeyError")
       /\ (available_gws # <<>> /\ "name" \in merged_df.columns)
            => /\ Returned
               /\ ret.columns = merged_df.columns
               /\ ret.rows = FirstWins(merged_df.rows, KeyColumns)
               /\ NoDuplicateKeys(merged_df)
                    => /\ ret.rows = merged_df.rows
                       /\ Len(ret.rows)
                            = NumGW * Cardinality({merged_df.rows[k]["name"] :
                                                     k \in 1..Len(merged_df.rows)})

\* C10 witness: the merged table covered every gameweek, gameweeks probed
\* available, and the merged rows came back, one for each player in each
\* gameweek.
C10_Witness ==
  /\ Returned
  /\ MergedCoversSeason
  /\ available_gws # <<>>
  /\ ret.rows = merged_df.rows
  /\ Len(ret.rows) = NumGW * NumPlayers

\* The gameweek table has exactly one row for each player.
OneRowPerPlayer(df) ==
  /\ "name" \in df.columns
  /\ Len(df.rows) = Cardinality(Players)
  /\ {df.rows[k]["name"] : k \in 1..Len(df.rows)} = Players

\* The season has no merged table, its gameweeks 1 to Len(available_gws)
\* and no others probed available, and each of them was fetched as a table
\* of one row per player.
OnlyFirstGameweeksFetched ==
  /\ merged_df = None
  /\ <<season, 0>> \in failed
  /\ available_gws # <<>>
  /\ \A k \in 1..Len(available_gws) : available_gws[k] = k
  /\ \A g \in GameWeeks : <<season, g>> \notin failed
  /\ \A k \in 1..Len(individual_dfs) : OneRowPerPlayer(individual_dfs[k])

\* C11: when the season has no merged table, exactly the gameweeks 1 to n
\* probed available and each fetch succeeded with one row per player,
\* reconstruct_complete_season returns after one GET for each of those n
\* gameweeks and none for any other, and the table it returns has n times
\* the player count rows.
C11_FetchesEachAvailableGameweekOnce ==
  (SeasonCallOver /\ OnlyFirstGameweeksFetched)
    => /\ Returned
       /\ \A g \in GameWeeks :
            gets[<<season, g>>] = IF g <= Len(available_gws) THEN 1 ELSE 0
       /\ Len(individual_dfs) = Len(available_gws)
       /\ ret # None
       /\ Len(ret.rows) = Len(available_gws) * Cardinality(Players)

\* C11 witness: a season without a merged table whose first gameweeks, but
\* not all, were available and fetched, returned with one row per player and
\* gameweek.
C11_Witness ==
  /\ Returned
  /\ OnlyFirstGameweeksFetched
  /\ Len(available_gws) < NumGW
  /\ GameweekGets(season) = 1..Len(available_gws)
  /\ Len(ret.rows) = Len(available_gws) * Cardinality(Players)

\* C12: after a successful save_to_database the table player_gameweeks is
\* exactly the dataset passed in, whatever the table held before, and
\* replacing the table with the same dataset once more leaves it as it is.
C12_SaveOverwritesWholesale ==
  (pc = "done")
    => /\ store = final_df
       /\ store.rows = final_df.rows
       /\ ReplaceTable(store, final_df) = store

\* C12 witness: a run that found the table of an earlier run ended well and
\* none of the earlier rows is in the table.
C12_Witness ==
  /\ pc = "done"
  /\ store0 = OldTable
  /\ store = final_df
  /\ \A k \in 1..Len(store.rows), o \in 1..Len(store0.rows) :
       store.rows[k] # store0.rows[o]

\* C13: no call that opened the database connection returns or raises with
\* the connection still open, whether it is save_to_database, load_data or
\* explore_ml_features and whether or not a statement inside it raised.
C13_ConnectionReleasedOnEveryExit ==
  (pc \in {"done", "raised"}) => conn # "open"

\* evaluate_model has returned its metrics.
Evaluated == entry = "evaluate_model" /\ pc = "done"

\* C14: whenever evaluate_model is called on a non-empty test set and the
\* predictions equal the actual values row by row, the directional accuracy
\* it reports is 1.0: every row counts as agreeing.
C14_PerfectPredictionsScoreOne ==
  (Evaluated /\ y_test # <<>> /\ y_pred = y_test)
    => /\ metrics.directional_accuracy # NaN
       /\ metrics.directional_accuracy.den = Len(y_test)
       /\ metrics.directional_accuracy.num = metrics.directional_accuracy.den

\* C14 witness: predictions equal to actual values that are not all alike,
\* one of them at the median, scored 1.0.
C14_Witness ==
  /\ Evaluated
  /\ y_pred = y_test
  /\ \E a, b \in 1..Len(y_test) :
       /\ y_test[a] # y_test[b]
       /\ 2 * y_test[a] = median_x2(y_test)
  /\ metrics.directional_accuracy = [num |-> Len(y_test), den |-> Len(y_test)]

\* The rows of the test set with a big haul.
BigHaulRows == {k \in 1..Len(y_test) : y_test[k] >= BigHaulPoints}

\* The big-haul rows whose prediction is at or above the 95th percentile of
\* the predictions.
OverlapRows ==
  {k \in BigHaulRows :
     100 * y_pred[k] >= percentile_x100(y_pred, TopPercentile)}

\* C15: the big-haul recall evaluate_model reports is never the outcome of a
\* division by zero; it is the overlap divided by the larger of 1 and the
\* number of rows with at least 10 actual points, lies between 0 and 1, and
\* is 0 when no row has at least 10 actual points.
C15_BigHaulRecallIsSafe ==
  Evaluated
    => /\ metrics.big_haul_recall \notin {NaN, Inf}
       /\ metrics.big_haul_recall.num = Cardinality(OverlapRows)
       /\ metrics.big_haul_recall.den = Max(Cardinality(BigHaulRows), 1)
       /\ 0 <= metrics.big_haul_recall.num
       /\ metrics.big_haul_recall.num <= metrics.big_haul_recall.den
       /\ (BigHaulRows = {}) => metrics.big_haul_recall.num = 0

\* C15 witness: a test set of several rows, none of them a big haul, was
\* evaluated and the recall reported is 0.
C15_Witness ==
  /\ Evaluated
  /\ Len(y_test) > 1
  /\ BigHaulRows = {}
  /\ metrics.big_haul_recall = [num |-> 0, den |-> 1]

\* create_time_based_splits has returned its masks.
SplitDone == entry = "create_time_based_splits" /\ pc = "done"

\* C16: the masks create_time_based_splits returns put every row of seasons
\* 2020-21, 2021-22 and 2022-23 in train, every row of 2023-24 in validation
\* and every row of 2024-25 in test; two rows of the same season get the same
\* masks wherever they stand in the frame, and calling it again on the same
\* frame gives the same masks.
C16_SplitBySeasonAlone ==
  SplitDone
    => /\ \A k \in 1..Len(ml_df.rows) :
            LET s == ml_df.rows[k].season IN
              /\ s \in {"2020-21", "2021-22", "2022-23"}
                   => masks.train_mask[k]
              /\ s = "2023-24" => masks.val_mask[k]
              /\ s = "2024-25" => masks.test_mask[k]
       /\ \A a, b \in 1..Len(ml_df.rows) :
            ml_df.rows[a].season = ml_df.rows[b].season
              => /\ masks.train_mask[a] = masks.train_mask[b]
                 /\ masks.val_mask[a] = masks.val_mask[b]
                 /\ masks.test_mask[a] = masks.test_mask[b]
       /\ create_time_based_splits(ml_df) = masks

\* C16 witness: a frame with a train, a validation and a test season out of
\* season order was split by season.
C16_Witness ==
  /\ SplitDone
  /\ Len(ml_df.rows) = MaxRows
  /\ ml_df.rows[1].season = "2024-25" /\ masks.test_mask[1]
  /\ ml_df.rows[2].season = "2021-22" /\ masks.train_mask[2]
  /\ ml_df.rows[3].season = "2023-24" /\ masks.val_mask[3]

\* The rows reconstruct_complete_season concatenated, the merged frame's
\* first and then each fetched gameweek's, with the columns of the result.
ConcatenatedRows ==
  LET all_dfs == (IF merged_df # None THEN <<merged_df>> ELSE <<>>)
                   \o individual_dfs
  IN ConcatRows([k \in 1..Len(all_dfs) |-> Project(all_dfs[k], ret.columns)])

\* The first position of the concatenation with the key of the row.
FirstWithKey(row) ==
  CHOOSE m \in 1..Len(ConcatenatedRows) :
    /\ SameKey(ConcatenatedRows[m], row, KeyColumns)
    /\ \A n \in 1..(m - 1) : ~SameKey(ConcatenatedRows[n], row, KeyColumns)

\* C17: the rows reconstruct_complete_season returns after dropping
\* duplicates are, for each (name, GW, season), the first row with that key
\* in concatenation order, the merged table's rows before the fetched
\* gameweeks' and each table's rows in their own order.
C17_FirstInConcatenationOrderWins ==
  (Returned /\ available_gws # <<>> /\ ret # None)
    => /\ ret.rows = FirstWins(ConcatenatedRows, KeyColumns)
       /\ \A k \in 1..Len(ret.rows) :
            ret.rows[k] = ConcatenatedRows[FirstWithKey(ret.rows[k])]

\* C17 witness: two different rows of one key were concatenated, a merged
\* frame among the sources, and the earlier one alone was returned.
C17_Witness ==
  /\ Returned
  /\ merged_df # None
  /\ individual_dfs # <<>>
  /\ \E a, b \in 1..Len(ConcatenatedRows) :
       /\ a < b
       /\ SameKey(ConcatenatedRows[a], ConcatenatedRows[b], KeyColumns)
       /\ ConcatenatedRows[a] # ConcatenatedRows[b]
       /\ \E k \in 1..Len(ret.rows) : ret.rows[k] = ConcatenatedRows[a]
       /\ \A k \in 1..Len(ret.rows) : ret.rows[k] # ConcatenatedRows[b]

\* The gameweeks the merged frame has rows for; none without a GW column.
ObservedGameweeks ==
  IF merged_df # None /\ "GW" \in merged_df.columns THEN UniqueGW(merged_df)
  ELSE {}

\* The gameweeks that probed available.
AvailableGameweeks == {available_gws[k] : k \in 1..Len(available_gws)}

\* C18: when a call of reconstruct_complete_season is over, the gameweeks it
\* sent a GET for are exactly the gameweeks that probed available and are not
\* among the merged table's gameweeks, all that probed available when there
\* is no merged table; none of the merged table's gameweeks was fetched.
C18_FetchesExactlyTheMissingGameweeks ==
  SeasonCallOver
    => /\ GameweekGets(season) = AvailableGameweeks \ ObservedGameweeks
       /\ GameweekGets(season) \cap ObservedGameweeks = {}

\* The tables fetched for the season: the merged one, if its GET succeeded,
\* and each gameweek's whose GET succeeded.
FetchedTables ==
  (IF merged_df # None THEN <<merged_df>> ELSE <<>>) \o individual_dfs

\* The column names every fetched table has.
ColumnsOfAll ==
  {c \in UNION {FetchedTables[k].columns : k \in 1..Len(FetchedTables)} :
     \A k \in 1..Len(FetchedTables) : c \in FetchedTables[k].columns}

\* C19: the table reconstruct_complete_season returns has exactly the columns
\* that every table fetched for the season has, the merged one and each
\* gameweek's, and the call returns None when no table was fetched.
C19_ColumnsAreTheIntersection ==
  /\ (SeasonCallOver /\ FetchedTables = <<>>) => (Returned /\ ret = None)
  /\ (Returned /\ FetchedTables # <<>>)
       => /\ ret # None
          /\ ret.columns = ColumnsOfAll

\* C19 witness: a merged table and a gameweek table of fewer columns were
\* fetched, and the table returned has the columns of both only.
C19_Witness ==
  /\ Returned
  /\ merged_df # None
  /\ individual_dfs # <<>>
  /\ ret.columns # merged_df.columns
  /\ ret.columns = merged_df.columns \cap individual_dfs[1].columns

\* The seasons of the expected-complete list.
CompleteSeasons == {COMPLETE_SEASONS[k] : k \in 1..Len(COMPLETE_SEASONS)}

\* The seasons of the expected-partial list.
PartialSeasons == {PARTIAL_SEASONS[k] : k \in 1..Len(PARTIAL_SEASONS)}

\* The frame has a row of the season.
HasSeason(df, s) == \E k \in 1..Len(df.rows) : df.rows[k]["season"] = s

\* Reconciliation of a partial season has begun: its merged table was
\* requested, or one of its gameweeks probed or requested.
ReconciliationBegun ==
  \E s \in PartialSeasons :
    \/ gets[<<s, 0>>] > 0
    \/ \E g \in GameWeeks : probes[<<s, g>>] # "none" \/ gets[<<s, g>>] > 0

\* C20: for a season of the expected-complete list the run requests the
\* merged table at most once and never probes or requests a gameweek; when
\* that request failed no frame collected has a row of the season; and
\* nothing of a partial season is requested or probed before the merged
\* table of every complete season was requested.
C20_CompleteSeasonsLoadMergedOnly ==
  /\ \A s \in CompleteSeasons :
       /\ gets[<<s, 0>>] <= 1
       /\ \A g \in GameWeeks :
            probes[<<s, g>>] = "none" /\ gets[<<s, g>>] = 0
       /\ <<s, 0>> \in failed
            => /\ \A k \in 1..Len(all_season_data) :
                    ~HasSeason(all_season_data[k], s)
               /\ final_df # None => ~HasSeason(final_df, s)
  /\ ReconciliationBegun => \A s \in CompleteSeasons : gets[<<s, 0>>] = 1
  /\ (pc \in {"rcs_83", "rcs_86", "rcs_103", "rcs_return"})
       => season \in PartialSeasons

\* C20 witness: a run ended well in which the merged fetch of one complete
\* season failed and left no row, another complete season gave its rows, and
\* gameweeks were probed and fetched for the partial season only.
C20_Witness ==
  /\ pc = "done"
  /\ \E s \in CompleteSeasons : <<s, 0>> \in failed /\ ~HasSeason(final_df, s)
  /\ \E s \in CompleteSeasons : HasSeason(final_df, s)
  /\ \E s \in PartialSeasons, g \in GameWeeks :
       probes[<<s, g>>] = "200" /\ gets[<<s, g>>] = 1
  /\ \A s \in CompleteSeasons, g \in GameWeeks : gets[<<s, g>>] = 0

\* The positions of the frame the mask selects.
MaskRows(mask) == {k \in 1..Len(ml_df.rows) : mask[k]}

\* The five seasons the splits are configured with.
ConfiguredSeasons ==
  {"2020-21", "2021-22", "2022-23", "2023-24", "2024-25"}

\* C21: the train, validation and test masks create_time_based_splits
\* returns are pairwise disjoint, so the rows main selects with them have no
\* row in common and together no more rows than the frame; and a row whose
\* season is none of the five configured seasons is in no split.
C21_MasksPairwiseDisjoint ==
  SplitDone
    => /\ MaskRows(masks.train_mask) \cap MaskRows(masks.val_mask) = {}
       /\ MaskRows(masks.train_mask) \cap MaskRows(masks.test_mask) = {}
       /\ MaskRows(masks.val_mask) \cap MaskRows(masks.test_mask) = {}
       /\ \A k \in 1..Len(ml_df.rows) :
            ml_df.rows[k].season \notin ConfiguredSeasons
              => /\ ~masks.train_mask[k]
                 /\ ~masks.val_mask[k]
                 /\ ~masks.test_mask[k]
       /\ Len(BooleanIndex(ml_df.rows, masks.train_mask))
            + Len(BooleanIndex(ml_df.rows, masks.val_mask))
            + Len(BooleanIndex(ml_df.rows, masks.test_mask))
            = Cardinality({k \in 1..Len(ml_df.rows) :
                             ml_df.rows[k].season \in ConfiguredSeasons})

\* C21 witness: a frame with a row of a season before the configured ones
\* and rows of two different splits was split; the early row is in no split
\* and the other two in one each.
C21_Witness ==
  /\ SplitDone
  /\ \E a, b, c \in 1..Len(ml_df.rows) :
       /\ ml_df.rows[a].season = "2019-20"
       /\ ~masks.train_mask[a] /\ ~masks.val_mask[a] /\ ~masks.test_mask[a]
       /\ masks.train_mask[b] /\ ~masks.val_mask[b] /\ ~masks.test_mask[b]
       /\ masks.test_mask[c] /\ ~masks.train_mask[c] /\ ~masks.val_mask[c]

====
